---- MODULE Spec2Model ----
(***************************************************************************)
(* Model of src/src/components/EasyTierDashboard.tsx: the React component  *)
(* EasyTierDashboard, its DisplayState (nodes, loading, error,             *)
(* lastUpdate), the poller fetchNodes with its 5000 ms abort timer, the    *)
(* 10000 ms interval timer of the mount effect, handleRefresh, and the     *)
(* render (main-content branches and formatToMB).                          *)
(*                                                                         *)
(* Time is digitised in quanta of 5000 ms: every timer holds the number of *)
(* milliseconds it still has to run, Advance lets one quantum pass, and a  *)
(* timer that has run down must fire (or be overtaken by an event of the   *)
(* same instant) before more time passes.                                  *)
(*                                                                         *)
(* Optional values (string | null, Date | null, a possibly missing number) *)
(* are sets with at most one element: Null is {} and Some(x) is {x}.       *)
(***************************************************************************)
EXTENDS Integers, Sequences, FiniteSets, TLC

VARIABLES
    status,      \* lifecycle: "init" (first render done, effect not yet run),
                 \* "mounted", "unmounted", "crashed" (a render threw: React
                 \* removed the tree)
    nodes,       \* useState<Node[]>([]): whatever setNodes was last given
    loading,     \* useState(true)
    error,       \* useState<string | null>(null)
    lastUpdate,  \* useState<Date | null>(null): Null, or Some(age in ms) of the stamp
    now,         \* the clock new Date() reads, in ms modulo REFRESH_INTERVAL
    timers,      \* the live setInterval timers: sequence of ms until the next tick
    slot,        \* the fetchNodes invocations in flight
    pairs,       \* <<t, m>>: manual refresh m was started while timer-driven t was
                 \* in flight, and neither has resolved yet
    lastOfPair,  \* in-flight refreshes whose partner of such a pair has resolved
    view,        \* what the last render produced
    lastEvent    \* the handler that ran last, and what it did

vars == <<status, nodes, loading, error, lastUpdate, now, timers, slot, pairs,
          lastOfPair, view, lastEvent>>

-----------------------------------------------------------------------------
(* Bounds and program constants *)

MaxSlots == 2          \* refreshes in flight at the same time
MaxAge == 1            \* quanta after which the age of lastUpdate stops counting

REFRESH_INTERVAL == 10000
REQUEST_TIMEOUT == 5000
BYTES_PER_MB == 1024 * 1024

Quantum == REQUEST_TIMEOUT
Slots == 1..MaxSlots

Null == {}
Some(x) == {x}
Value(o) == CHOOSE x \in o : TRUE

-----------------------------------------------------------------------------
(* JSON values, as response.json() yields them.  error and details are the *)
(* fields of that name; "" stands for a missing field (undefined, falsy).  *)
(* A backend that sets these fields sets them to a non-empty message.      *)

J(t, v, e, d) == [t |-> t, v |-> v, error |-> e, details |-> d]

Node(rx, tx) == [rx_bytes |-> rx, tx_bytes |-> tx]
N1 == Node(Some(1048576), Some(0))
N2 == Node(Some(-5), Null)
N3 == Node(Some(1572864), Some(-1048576))

JArray(s) == J("array", s, "", "")
EmptyArray == JArray(<<>>)
JObject(e, d) == J("object", <<>>, e, d)
JNull == J("null", <<>>, "", "")
JNumber == J("number", <<>>, "", "")
NoData == J("none", <<>>, "", "")

\* What the backend may send as a body; Unparseable is text that is no JSON.
Unparseable == J("invalid", <<>>, "", "")
Arrays == {EmptyArray, JArray(<<N1>>), JArray(<<N2, N3>>)}
Bodies == Arrays \cup {JObject("", ""), JObject("down", ""), JObject("E1", "peer list failed"),
                       JNull, JNumber, Unparseable}
Statuses == {200, 500}

IsArray(n) == n.t = "array"

-----------------------------------------------------------------------------
(* formatToMB and Number.prototype.toFixed(2) *)

Abs(x) == IF x < 0 THEN -x ELSE x
Pad2(k) == IF k < 10 THEN "0" \o ToString(k) ELSE ToString(k)

\* (num / den).toFixed(2): n is the integer for which n / 100 is closest to
\* |num / den|, the larger one on a tie; a negative value keeps its sign.
toFixed2(num, den) ==
    LET n == (2 * 100 * Abs(num) + den) \div (2 * den)
    IN  (IF num < 0 THEN "-" ELSE "") \o ToString(n \div 100) \o "." \o Pad2(n % 100)

\* !bytes: undefined (a missing field) and 0 are falsy
Falsy(bytes) == bytes = Null \/ bytes = Some(0)

formatToMB(bytes) ==
    IF Falsy(bytes) THEN "0.00" ELSE toFixed2(Value(bytes), BYTES_PER_MB)

-----------------------------------------------------------------------------
(* Render: the main-content branches *)

\* nodes.length === 0 (undefined for a value that has no length)
LengthIsZero(n) == IsArray(n) /\ Len(n.v) = 0

Panel(n, l, e) ==
    IF e # Null THEN "error"
    ELSE IF l THEN "loading"
    ELSE IF LengthIsZero(n) THEN "empty"
    ELSE "table"

\* nodes.map(...) is a TypeError when nodes is no array
RenderThrows(n, l, e) == Panel(n, l, e) = "table" /\ ~IsArray(n)

Rows(n) ==
    [i \in 1..Len(n.v) |->
        [rxMb |-> formatToMB(n.v[i].rx_bytes), txMb |-> formatToMB(n.v[i].tx_bytes)]]

Render(n, l, e) ==
    [panel |-> Panel(n, l, e),
     rows |-> IF Panel(n, l, e) = "table" THEN Rows(n) ELSE <<>>]

NoView == [panel |-> "none", rows |-> <<>>]

-----------------------------------------------------------------------------
(* Messages of the failures (err.message) *)

AbortMessage == "signal is aborted without reason"
NetworkMessage == "Failed to fetch"
SyntaxMessage == "Unexpected token < in JSON at position 0"
NullMessage == "Cannot read properties of null (reading 'error')"
\* `API 响应错误: ${response.status}`
HttpMessage(st) == "API response error: " \o ToString(st)
\* `后端错误: ${data.details || data.error}`
BackendMessage(data) ==
    "backend error: " \o (IF data.details # "" THEN data.details ELSE data.error)

-----------------------------------------------------------------------------
(* State *)

Idle == [phase |-> "idle", kind |-> "none", timeout |-> -1]

\* What a handler did: op names it, kind is the origin of the refresh it
\* belongs to, live tells whether the component was mounted when it ran,
\* data / msg are the parsed body / the failure message it ended with,
\* toasts counts its toast() calls and started its fetchNodes() calls, last
\* tells that it resolved the second refresh of a manual/timer pair.
Event(op, kind, live, data, msg, toasts, started, last) ==
    [op |-> op, kind |-> kind, live |-> live, data |-> data, msg |-> msg,
     toasts |-> toasts, started |-> started, last |-> last]

Quiet(op) == Event(op, "none", status = "mounted", NoData, Null, 0, 0, FALSE)

Init ==
    /\ status = "init"
    /\ nodes = EmptyArray
    /\ loading = TRUE
    /\ error = Null
    /\ lastUpdate = Null
    /\ now = 0
    /\ timers = <<>>
    /\ slot = [s \in Slots |-> Idle]
    /\ pairs = {}
    /\ lastOfPair = {}
    /\ view = Render(EmptyArray, TRUE, Null)
    /\ lastEvent = Event("init", "none", FALSE, NoData, Null, 0, 0, FALSE)

InFlight == {s \in Slots : slot[s].phase # "idle"}
FreeSlots == Slots \ InFlight
NextSlot == CHOOSE s \in FreeSlots : \A t \in FreeSlots : s <= t
TickDue == \E i \in DOMAIN timers : timers[i] = 0

\* clearInterval(interval): the effect's cleanup removes the timer the effect made
Cleanup(tm) == IF tm = <<>> THEN tm ELSE Tail(tm)

\* React applies the state writes of one handler as one batch and renders
\* again; writes to a component that is no longer mounted are discarded.  A
\* render that throws takes the tree down, which runs the effect's cleanup.
\* st and tm are the lifecycle and the timers the handler leaves otherwise.
Commit(st, tm, n, l, e, u) ==
    IF st = "mounted"
    THEN /\ nodes' = n
         /\ loading' = l
         /\ error' = e
         /\ lastUpdate' = u
         /\ IF RenderThrows(n, l, e)
            THEN status' = "crashed" /\ timers' = Cleanup(tm) /\ view' = NoView
            ELSE status' = st /\ timers' = tm /\ view' = Render(n, l, e)
    ELSE /\ UNCHANGED <<nodes, loading, error, lastUpdate, view>>
         /\ status' = st
         /\ timers' = tm

-----------------------------------------------------------------------------
(* fetchNodes *)

\* Up to the first await: setError(null), the AbortController, the abort
\* timer, the request.  Yields the slots with the new invocation in slot s.
FetchNodesStart(s, kind) ==
    [slot EXCEPT ![s] = [phase |-> "fetch", kind |-> kind, timeout |-> REQUEST_TIMEOUT]]

\* The invocation in slot s ends: its slot is free again, and what is left
\* of the manual/timer pairs it belonged to is noted.
Resolve(s) ==
    /\ slot' = [slot EXCEPT ![s] = Idle]
    /\ pairs' = {p \in pairs : p[1] # s /\ p[2] # s}
    /\ lastOfPair' = (lastOfPair \ {s})
                        \cup {p[2] : p \in {q \in pairs : q[1] = s}}
                        \cup {p[1] : p \in {q \in pairs : q[2] = s}}

\* Variant of Succeed that forgets setLoading(false)
SucceedKeepsLoading(s, data) ==
    /\ Commit(status, timers, data, loading, error, Some(0))
    /\ Resolve(s)
    /\ UNCHANGED now
    /\ lastEvent' = Event("success", slot[s].kind, status = "mounted", data, Null,
                          0, 0, s \in lastOfPair)

\* setNodes(data); setLastUpdate(new Date()); setLoading(false)
Succeed(s, data) ==
    /\ Commit(status, timers, data, FALSE, error, Some(0))
    /\ Resolve(s)
    /\ UNCHANGED now
    /\ lastEvent' = Event("success", slot[s].kind, status = "mounted", data, Null,
                          0, 0, s \in lastOfPair)

\* Variant of Catch that also empties the node list: setNodes([])
CatchClearsNodes(s, msg) ==
    /\ Commit(status, timers, EmptyArray, FALSE, Some(msg), lastUpdate)
    /\ Resolve(s)
    /\ UNCHANGED now
    /\ lastEvent' = Event("failure", slot[s].kind, status = "mounted", NoData, Some(msg),
                          1, 0, s \in lastOfPair)

\* catch (err): setError(errorMessage); setLoading(false); toast({...})
Catch(s, msg) ==
    /\ Commit(status, timers, nodes, FALSE, Some(msg), lastUpdate)
    /\ Resolve(s)
    /\ UNCHANGED now
    /\ lastEvent' = Event("failure", slot[s].kind, status = "mounted", NoData, Some(msg),
                          1, 0, s \in lastOfPair)

\* await fetch(...) resolves with a response of status st: clearTimeout, then
\* the response.ok test; an ok response goes on to await response.json()
FetchResponds(s, st) ==
    /\ slot[s].phase = "fetch"
    /\ IF st \in 200..299
       THEN /\ slot' = [slot EXCEPT ![s] = [@ EXCEPT !.phase = "json", !.timeout = -1]]
            /\ lastEvent' = Event("headers", slot[s].kind, status = "mounted", NoData, Null,
                                  0, 0, FALSE)
            /\ UNCHANGED <<status, nodes, loading, error, lastUpdate, now, timers,
                           pairs, lastOfPair, view>>
       ELSE Catch(s, HttpMessage(st))

\* await fetch(...) rejects: the transport failed
FetchRejects(s) ==
    /\ slot[s].phase = "fetch"
    /\ Catch(s, NetworkMessage)

\* The abort timer has run down: controller.abort() rejects what the
\* invocation is awaiting on the signal
AbortFires(s) ==
    /\ slot[s].phase # "idle"
    /\ slot[s].timeout = 0
    /\ Catch(s, AbortMessage)

\* await response.json() settles with the body the backend sent
BodyArrives(s, body) ==
    /\ slot[s].phase = "json"
    /\ IF body = Unparseable THEN Catch(s, SyntaxMessage)
       ELSE IF body = JNull THEN Catch(s, NullMessage)
       ELSE IF body.error # "" THEN Catch(s, BackendMessage(body))
       ELSE Succeed(s, body)

\* await response.json() rejects: the connection broke while the body was read
BodyFails(s) ==
    /\ slot[s].phase = "json"
    /\ Catch(s, NetworkMessage)

-----------------------------------------------------------------------------
(* The effect, the interval, handleRefresh, time *)

\* useEffect(..., []): fetchNodes(); setInterval(fetchNodes, REFRESH_INTERVAL)
Mount ==
    /\ status = "init"
    /\ Commit("mounted", Append(timers, REFRESH_INTERVAL), nodes, loading, Null, lastUpdate)
    /\ slot' = FetchNodesStart(NextSlot, "mount")
    /\ lastEvent' = Event("mount", "mount", TRUE, NoData, Null, 0, 1, FALSE)
    /\ UNCHANGED <<now, pairs, lastOfPair>>

\* An interval timer has run down: it calls fetchNodes and starts over
IntervalTick ==
    /\ FreeSlots # {}
    /\ \E i \in DOMAIN timers :
        /\ timers[i] = 0
        /\ Commit(status, [timers EXCEPT ![i] = REFRESH_INTERVAL],
                  nodes, loading, Null, lastUpdate)
    /\ slot' = FetchNodesStart(NextSlot, "timer")
    /\ lastEvent' = Event("tick", "timer", status = "mounted", NoData, Null, 0, 1, FALSE)
    /\ UNCHANGED <<now, pairs, lastOfPair>>

\* The header button is disabled while loading; the error panel has its own
\* retry button
CanClickRefresh == status = "mounted" /\ (~loading \/ view.panel = "error")

\* Variant of handleRefresh that also starts an interval of its own
handleRefreshAddsTimer ==
    /\ CanClickRefresh
    /\ Cardinality(FreeSlots) > (IF TickDue THEN 1 ELSE 0)
    /\ Commit(status, Append(timers, REFRESH_INTERVAL), nodes, TRUE, Null, lastUpdate)
    /\ slot' = FetchNodesStart(NextSlot, "manual")
    /\ pairs' = pairs \cup {<<t, NextSlot>> : t \in {r \in InFlight : slot[r].kind = "timer"}}
    /\ lastEvent' = Event("manual", "manual", TRUE, NoData, Null, 0, 1, FALSE)
    /\ UNCHANGED <<now, lastOfPair>>

\* handleRefresh: setLoading(true); fetchNodes().  A timer that has run down
\* keeps a slot for its own refresh.
handleRefresh ==
    /\ CanClickRefresh
    /\ Cardinality(FreeSlots) > (IF TickDue THEN 1 ELSE 0)
    /\ Commit(status, timers, nodes, TRUE, Null, lastUpdate)
    /\ slot' = FetchNodesStart(NextSlot, "manual")
    /\ pairs' = pairs \cup {<<t, NextSlot>> : t \in {r \in InFlight : slot[r].kind = "timer"}}
    /\ lastEvent' = Event("manual", "manual", TRUE, NoData, Null, 0, 1, FALSE)
    /\ UNCHANGED <<now, lastOfPair>>

\* The component is removed: the effect's cleanup runs
Unmount ==
    /\ status = "mounted"
    /\ status' = "unmounted"
    /\ timers' = Cleanup(timers)
    /\ view' = NoView
    /\ lastEvent' = Quiet("unmount")
    /\ UNCHANGED <<nodes, loading, error, lastUpdate, now, slot, pairs, lastOfPair>>

Min(a, b) == IF a < b THEN a ELSE b

\* One quantum passes; no timer that has run down is left waiting
Advance ==
    /\ status # "init"
    /\ \A s \in Slots : slot[s].timeout # 0
    /\ ~TickDue
    /\ slot' = [s \in Slots |->
                  IF slot[s].timeout > 0
                  THEN [slot[s] EXCEPT !.timeout = @ - Quantum]
                  ELSE slot[s]]
    /\ timers' = [i \in DOMAIN timers |-> timers[i] - Quantum]
    /\ now' = (now + Quantum) % REFRESH_INTERVAL
    /\ lastUpdate' = IF lastUpdate = Null THEN Null
                     ELSE Some(Min(Value(lastUpdate) + Quantum, MaxAge * Quantum))
    /\ lastEvent' = Quiet("advance")
    /\ UNCHANGED <<status, nodes, loading, error, pairs, lastOfPair, view>>

Next ==
    \/ Mount
    \/ IntervalTick
    \/ handleRefresh
    \/ Unmount
    \/ Advance
    \/ \E s \in Slots, st \in Statuses : FetchResponds(s, st)
    \/ \E s \in Slots : FetchRejects(s)
    \/ \E s \in Slots : AbortFires(s)
    \/ \E s \in Slots, body \in Bodies : BodyArrives(s, body)
    \/ \E s \in Slots : BodyFails(s)

Spec == Init /\ [][Next]_vars

\* Time passes and timers that have run down fire
FairSpec ==
    /\ Spec
    /\ WF_vars(Advance)
    /\ WF_vars(IntervalTick)
    /\ \A s \in Slots : WF_vars(AbortFires(s))

-----------------------------------------------------------------------------
(* Claims *)

Resolved == lastEvent.op \in {"success", "failure"}

\* C1: a refresh that resolves successfully, with an array, on the mounted
\* component leaves nodes equal to that array, error = null, loading = false
\* and lastUpdate stamped, whatever refreshes ran or run beside it.
C1_SuccessState ==
    (lastEvent.op = "success" /\ lastEvent.live /\ IsArray(lastEvent.data))
        => /\ nodes = lastEvent.data
           /\ error = Null
           /\ loading = FALSE
           /\ lastUpdate = Some(0)

\* C2: a failing refresh emits exactly one notification and, on the mounted
\* component, sets error to its message and loading to false and leaves nodes
\* and lastUpdate as they were; a succeeding refresh emits no notification;
\* and a refresh ends in no other way.
C2_Step ==
    /\ (InFlight' # InFlight /\ Cardinality(InFlight') <= Cardinality(InFlight))
           => lastEvent'.op \in {"success", "failure"}
    /\ lastEvent'.op = "failure"
           => /\ lastEvent'.toasts = 1
              /\ lastEvent'.msg # Null
              /\ status = "mounted"
                    => /\ error' = lastEvent'.msg
                       /\ loading' = FALSE
                       /\ nodes' = nodes
                       /\ lastUpdate' = lastUpdate
    /\ lastEvent'.op = "success" => lastEvent'.toasts = 0

C2_FailureKeepsData == [][C2_Step]_vars

\* C2 witness: a request timed out after an earlier successful poll; the
\* error panel shows, and the node list of that poll is still in nodes.
C2_Witness ==
    /\ lastEvent.op = "failure"
    /\ lastEvent.live
    /\ lastEvent.toasts = 1
    /\ error = Some(AbortMessage)
    /\ view.panel = "error"
    /\ nodes = JArray(<<N1>>)
    /\ lastUpdate # Null

\* C3: when the second refresh of a manual/timer pair resolves, the state is
\* the one that refresh dictates: after a success error = null and nodes is
\* its array, after a failure error is its message; loading = false.
C3_LastResolverWins ==
    (Resolved /\ lastEvent.last /\ lastEvent.live)
        => /\ loading = FALSE
           /\ (lastEvent.op = "success" /\ IsArray(lastEvent.data))
                 => (error = Null /\ nodes = lastEvent.data)
           /\ lastEvent.op = "failure" => error = lastEvent.msg

\* C4: a body that is no array of node records never counts as a success:
\* nodes always holds a sequence and no render throws.
C4_MalformedIsCaught ==
    /\ IsArray(nodes)
    /\ status # "crashed"
    /\ lastEvent.op = "success" => IsArray(lastEvent.data)

\* C5: once the component is unmounted, no handler starts a refresh, writes
\* DisplayState or emits a notification.
C5_Step ==
    status = "unmounted"
        => /\ lastEvent'.started = 0
           /\ lastEvent'.toasts = 0
           /\ UNCHANGED <<nodes, loading, error>>
           /\ lastEvent'.op # "advance" => UNCHANGED lastUpdate

C5_NothingAfterUnmount == [][C5_Step]_vars

\* C6: the mount effect starts exactly one refresh and one interval timer,
\* which lives exactly as long as the component is mounted; a tick starts
\* exactly one refresh and re-arms that timer, whatever the state of earlier
\* refreshes; handleRefresh starts exactly one refresh and leaves the timer
\* alone, as does every resolution of a refresh.
C6_TimerInv ==
    /\ status = "mounted" => /\ Len(timers) = 1
                             /\ timers[1] \in {0, Quantum, REFRESH_INTERVAL}
                             /\ (timers[1] = 0 /\ FreeSlots # {}) => ENABLED IntervalTick
    /\ status # "mounted" => timers = <<>>

C6_Step ==
    /\ lastEvent'.started = Cardinality(InFlight' \ InFlight)
    /\ (status = "init" /\ status' # "init")
           => lastEvent'.started = 1 /\ timers' = <<REFRESH_INTERVAL>>
    /\ (lastEvent'.op = "tick" /\ lastEvent' # lastEvent)
           => /\ lastEvent'.started = 1
              /\ status' = "mounted" => timers' = <<REFRESH_INTERVAL>>
    /\ (lastEvent'.op = "manual" /\ lastEvent' # lastEvent)
           => lastEvent'.started = 1 /\ timers' = timers /\ status' = "mounted"
    /\ (lastEvent'.op \in {"success", "failure", "headers"} /\ status' = "mounted")
           => timers' = timers

C6_OneTimerOneRefresh == []C6_TimerInv /\ [][C6_Step]_vars

\* C6 witness: a tick starts a refresh although no poll has succeeded yet
\* and a manual refresh is still in flight.
C6_Witness ==
    /\ lastEvent.op = "tick"
    /\ status = "mounted"
    /\ lastUpdate = Null
    /\ timers = <<REFRESH_INTERVAL>>
    /\ \E s \in InFlight : slot[s].kind = "manual"
    /\ \E s \in InFlight : slot[s].kind = "timer"

\* C7: every DisplayState renders exactly one main panel: the error panel
\* iff error is non-null, else the spinner iff loading, else the empty-state
\* panel iff nodes is empty, else the table.
C7_OnePanel ==
    status # "unmounted"
        => view.panel = (IF error # Null THEN "error"
                         ELSE IF loading THEN "loading"
                         ELSE IF nodes.v = <<>> THEN "empty"
                         ELSE "table")

\* bytes / 1,048,576 to two decimal places, for bytes > 0
C8_TwoDecimals(bytes) ==
    LET cand == 0..((100 * bytes) \div BYTES_PER_MB + 1)
        dist(k) == Abs(100 * bytes - k * BYTES_PER_MB)
        n == CHOOSE k \in cand : \A j \in cand : dist(k) < dist(j) \/ (dist(k) = dist(j) /\ k >= j)
    IN  ToString(n \div 100) \o "." \o Pad2(n % 100)

C8_Claimed(bytes) ==
    IF bytes = Null \/ Value(bytes) <= 0 THEN "0.00" ELSE C8_TwoDecimals(Value(bytes))

\* C8: formatToMB is "0.00" for a zero, negative or absent byte count and
\* bytes / 1,048,576 to two decimals for a positive one, in every rendered row.
C8_FormatToMB ==
    /\ C8_Claimed(Some(1048576)) = "1.00"
    /\ \A i \in DOMAIN view.rows :
          /\ view.rows[i].rxMb = C8_Claimed(nodes.v[i].rx_bytes)
          /\ view.rows[i].txMb = C8_Claimed(nodes.v[i].tx_bytes)

\* C9: with time passing and the timers firing, every refresh in flight
\* eventually resolves.
C9_EveryRefreshResolves ==
    \A s \in Slots : (slot[s].phase # "idle") ~> (slot[s].phase = "idle")

\* C10: on the mounted component, loading = true implies that a refresh is
\* in flight.
C10_LoadingImpliesInFlight ==
    (status = "mounted" /\ loading) => InFlight # {}

\* C10 witness: a manual refresh has set loading while another refresh was
\* in flight.
C10_Witness ==
    /\ status = "mounted"
    /\ loading
    /\ lastEvent.op = "manual"
    /\ Cardinality(InFlight) = 2

====
